---- MODULE Spec2Model ----
(***************************************************************************)
(* Availability and booking engine of the Booking SaaS API (src/main.py,   *)
(* src/schemas.py): slot generation from weekly availability and stored    *)
(* appointments, the booking transaction with its availability re-check    *)
(* and deposit computation, the payment-confirmation webhook, business     *)
(* creation, and the reminder scheduler and dispatcher.  The loop of       *)
(* generate_slots is modelled twice: by the sequence it returns, and one   *)
(* iteration at a time.                                                    *)
(*                                                                         *)
(* Strings that the code parses or formats are modelled by their parts:    *)
(*   a date string is [fmt, day]   ("2024-01-01" is fmt "ext", day 0;      *)
(*                                  "20240101"   is fmt "basic", day 0;    *)
(*                                  "2024/01/01" is fmt "bad", day 0),     *)
(*   a time string is [h, m]       ("09:15" is [h |-> 9, m |-> 15]),       *)
(*   an ISO instant string is [date, time].                                *)
(* Day 0 is Monday 2024-01-01.  An instant is minutes since day 0, 00:00.  *)
(* An Optional value is <<>> (None) or <<v>>.                              *)
(***************************************************************************)
EXTENDS Integers, Sequences, FiniteSets, TLC

VARIABLES
    business,       \* collection "business":     id -> document
    staff,          \* collection "staff":        id -> document
    service,        \* collection "service":      id -> document
    availability,   \* collection "availability": sequence of documents, insertion order
    appointment,    \* collection "appointment":  sequence of documents, _id = index
    sessionCalls,   \* Session.create calls of the last request, by appointment id
    reminder,       \* collection "reminder":     sequence of documents, insertion order
    inflight,       \* per worker: a book request between its re-check and its insert
    bizInflight,    \* per worker: a create-business request between lookup and insert
    gen,            \* the generate_slots call in progress: <<>> or its locals
    request,        \* the request handled by the last step
    response        \* its HTTP response

vars == <<business, staff, service, availability, appointment, reminder,
          sessionCalls, inflight, bizInflight, gen, request, response>>

catalog == <<business, staff, service>>
store == <<business, staff, service, availability, appointment, reminder>>

----------------------------------------------------------------------------
(* Bounds *)

MaxAppts == 2       \* appointments the model lets book insert
MaxDay == 1         \* calendar days 0..MaxDay (0 = Monday 2024-01-01)
MaxBiz == 3         \* business documents the model lets create_business reach
MaxReminders == 51  \* reminder documents the model lets run_reminders reach
BacklogLen == 49    \* queued reminders stored before the modelled requests
MaxSlots == 7       \* slots one generate_slots call collects before it runs out

Days == 0..MaxDay
DateStrs == [fmt : {"ext"}, day : Days] \cup [fmt : {"basic", "bad"}, day : {0}]
Workers == {"w1", "w2"}

MinutesPerDay == 1440

----------------------------------------------------------------------------
(* Conversions *)

\* A time string "HH:MM" that datetime.fromisoformat accepts
IsValidTime(tm) == tm.h \in 0..23 /\ tm.m \in 0..59

\* datetime.fromisoformat(date_str + "T00:00:00+00:00") succeeds.  This is the
\* parser of Python 3.11 and later, which reads the basic format "YYYYMMDD" as
\* well; an earlier Python treats a "basic" string as it treats a "bad" one, so
\* its behaviours are those of this model without the "basic" inputs.
DateParses(d) == d.fmt \in {"ext", "basic"}

\* datetime.fromisoformat(iso): the instant an ISO string denotes
ParseIso(iso) == iso.date.day * MinutesPerDay + iso.time.h * 60 + iso.time.m

\* strftime("%H:%M") of an instant
HHMM(inst) == [h |-> (inst % MinutesPerDay) \div 60, m |-> inst % 60]

\* utc_iso(dt): isoformat() of a UTC datetime, always the extended format
utc_iso(inst) ==
    [date |-> [fmt |-> "ext", day |-> inst \div MinutesPerDay], time |-> HHMM(inst)]

\* minutes_between(iso_start, minutes)
minutes_between(iso_start, minutes) == utc_iso(ParseIso(iso_start) + minutes)

\* date.weekday(): 0 = Monday
Weekday(d) == d.day % 7

\* service["duration_min"] + buffer_before_min + buffer_after_min
DurationTotal(svc) == svc.duration_min + svc.buffer_before_min + svc.buffer_after_min

\* a variant of compute_deposit_cents that takes an override of 0 as absent
compute_deposit_cents_override_or_default(biz, svc) ==
    LET pct == IF svc.deposit_percent_override \in {<<>>, <<0>>}
               THEN biz.deposit_percent_default
               ELSE svc.deposit_percent_override[1]
    IN (svc.price_cents * pct) \div 100

\* compute_deposit_cents(biz, service)
compute_deposit_cents(biz, svc) ==
    LET pct == IF svc.deposit_percent_override = <<>>
               THEN biz.deposit_percent_default
               ELSE svc.deposit_percent_override[1]
    IN (svc.price_cents * pct) \div 100

----------------------------------------------------------------------------
(* Collections *)

ActiveStatuses == {"pending", "confirmed"}

\* db["availability"].find_one({"business_id": b, "staff_id": s}): index of the
\* first matching document, 0 when there is none
AvIndex(business_id, staff_id) ==
    LET hits == {i \in 1..Len(availability) :
                    /\ availability[i].business_id = business_id
                    /\ availability[i].staff_id = staff_id}
    IN IF hits = {} THEN 0 ELSE CHOOSE i \in hits : \A j \in hits : i <= j

\* db["business"].find_one({"slug": slug}): the id, or <<>> when absent
BizBySlug(slug) ==
    LET hits == {b \in DOMAIN business : business[b].slug = slug}
    IN IF hits = {} THEN <<>> ELSE <<CHOOSE b \in hits : TRUE>>

\* av.get("weekly", {}).get(str(weekday)) or av.get("weekly", {}).get(weekday) or []
DayBlocks(av, weekday) ==
    IF weekday \in DOMAIN av.weekly THEN av.weekly[weekday] ELSE <<>>

\* the appointment query of generate_slots: business, staff, status in
\* {pending, confirmed}, start_iso matching the regex "^" + date_str
FetchAppts(business_id, staff_id, date_str) ==
    {i \in 1..Len(appointment) :
        /\ appointment[i].business_id = business_id
        /\ appointment[i].staff_id = staff_id
        /\ appointment[i].status \in ActiveStatuses
        /\ appointment[i].start_iso.date = date_str}

----------------------------------------------------------------------------
(* Slot generation *)

\* overlaps(a_start, a_end, b_start, b_end), nested in generate_slots
overlaps(a_start, a_end, b_start, b_end) ==
    ~(a_end <= b_start \/ a_start >= b_end)

\* a variant of SlotFits that tests the slot's start only
SlotFitsStartOnly(t, duration_total, end_min) == t <= end_min

\* the loop condition "while t + duration_total <= end_min"
SlotFits(t, duration_total, end_min) == t + duration_total <= end_min

\* the conflict scan over the fetched appointments for one candidate
Conflict(slot_start, slot_end, appts) ==
    \E i \in appts :
        overlaps(slot_start, slot_end,
                 ParseIso(appointment[i].start_iso), ParseIso(appointment[i].end_iso))

\* the while loop of generate_slots over one block, from candidate t on
RECURSIVE BlockSlots(_, _, _, _, _, _)
BlockSlots(t, end_min, duration_total, increment, day_start, appts) ==
    IF SlotFits(t, duration_total, end_min)
    THEN LET slot_start == day_start + t
             slot_end == slot_start + duration_total
         IN (IF Conflict(slot_start, slot_end, appts)
             THEN <<>> ELSE <<utc_iso(slot_start)>>)
            \o BlockSlots(t + increment, end_min, duration_total, increment,
                          day_start, appts)
    ELSE <<>>

\* the "for block in day_blocks" loop: blocks in stored order, results appended
RECURSIVE AllBlockSlots(_, _, _, _, _)
AllBlockSlots(day_blocks, duration_total, increment, day_start, appts) ==
    IF day_blocks = <<>> THEN <<>>
    ELSE BlockSlots(Head(day_blocks).start_min, Head(day_blocks).end_min,
                    duration_total, increment, day_start, appts)
         \o AllBlockSlots(Tail(day_blocks), duration_total, increment, day_start, appts)

\* generate_slots(biz, staff_id, service, date_str, increment).
\* raised: fromisoformat rejected date_str (ValueError), which happens only
\* after the availability lookup found a record.
generate_slots(business_id, staff_id, svc, date_str, increment) ==
    LET a == AvIndex(business_id, staff_id) IN
    IF a = 0 THEN [raised |-> FALSE, slots |-> <<>>]
    ELSE IF ~DateParses(date_str) THEN [raised |-> TRUE, slots |-> <<>>]
    ELSE [raised |-> FALSE,
          slots |-> AllBlockSlots(DayBlocks(availability[a], Weekday(date_str)),
                                  DurationTotal(svc), increment,
                                  date_str.day * MinutesPerDay,
                                  FetchAppts(business_id, staff_id, date_str))]

\* [strftime("%H:%M") of fromisoformat(t) for t in times]
FormatTimes(times) == [k \in 1..Len(times) |-> HHMM(ParseIso(times[k]))]

\* slots(slug, q): the slot-listing endpoint, also called by book.
\* code 500 stands for the unhandled ValueError of generate_slots.
slots(slug, q) ==
    LET b == BizBySlug(slug) IN
    IF b = <<>> THEN [code |-> 404, times |-> <<>>]
    ELSE IF q.service_id \notin DOMAIN service THEN [code |-> 404, times |-> <<>>]
    ELSE LET a == AvIndex(b[1], q.staff_id)
             increment == IF a = 0 THEN 15 ELSE availability[a].slot_increment_min
             g == generate_slots(b[1], q.staff_id, service[q.service_id], q.date, increment)
         IN IF g.raised THEN [code |-> 500, times |-> <<>>]
            ELSE [code |-> 200, times |-> FormatTimes(g.slots)]

----------------------------------------------------------------------------
(* Documents present before the modelled requests, and the request inputs *)

Block(s, e) == [start_min |-> s, end_min |-> e]

BusinessDocs ==
    [b \in {"b1"} |-> [slug |-> "s1", deposit_percent_default |-> 20,
                        ics_token |-> <<b>>,
                        reminders_enabled |-> TRUE, reminders_email_enabled |-> TRUE,
                        reminders_sms_enabled |-> FALSE]]

StaffDocs == [s \in {"st1"} |-> [business_id |-> "b1"]]

ServiceDocs ==
    [v \in {"sv1", "sv2"} |->
        IF v = "sv1"
        THEN [business_id |-> "b1", price_cents |-> 10000, duration_min |-> 30,
              buffer_before_min |-> 0, buffer_after_min |-> 0,
              deposit_percent_override |-> <<>>]
        ELSE [business_id |-> "b1", price_cents |-> 50, duration_min |-> 30,
              buffer_before_min |-> 15, buffer_after_min |-> 15,
              deposit_percent_override |-> <<1>>]]

\* the two set-availability requests of the model.  1: the Monday block
\* 9:00-10:00 at increment 15.  2: two overlapping Monday blocks out of order
\* and, on Tuesday, a negative-width block, a zero-width block and
\* 9:00-9:45, at increment 30.
WeeklyOf(k) ==
    IF k = 1 THEN (0 :> <<Block(540, 600)>>)
    ELSE (0 :> <<Block(570, 630), Block(540, 600)>>)
         @@ (1 :> <<Block(600, 540), Block(555, 555), Block(540, 585)>>)

IncrementOf(k) == IF k = 1 THEN 15 ELSE 30

\* "09:00", "09:30" and the unparseable "25:00"
TimeStrs == { [h |-> 9, m |-> 0], [h |-> 9, m |-> 30], [h |-> 25, m |-> 0] }

Monday == [fmt |-> "ext", day |-> 0]
Nine == [h |-> 9, m |-> 0]

\* slot queries: the first service on every date string, the second on the
\* well-formed ones, and one query each with an unknown slug, service and
\* staff member
SlotInputs ==
    {<<"s1", q>> : q \in [service_id : {"sv1"}, staff_id : {"st1"}, date : DateStrs]}
    \cup {<<"s1", q>> : q \in [service_id : {"sv2"}, staff_id : {"st1"},
                               date : [fmt : {"ext"}, day : Days]]}
    \cup {<<"zz", [service_id |-> "sv1", staff_id |-> "st1", date |-> Monday]>>,
          <<"s1", [service_id |-> "zz", staff_id |-> "st1", date |-> Monday]>>,
          <<"s1", [service_id |-> "sv1", staff_id |-> "zz", date |-> Monday]>>}

\* book requests, likewise, and one with an unknown slug and an unknown
\* service together
BookInputs ==
    {<<"s1", p>> : p \in [service_id : {"sv1"}, staff_id : {"st1"},
                          date : DateStrs \ {[fmt |-> "bad", day |-> 0]},
                          time : TimeStrs]}
    \cup {<<"s1", p>> : p \in [service_id : {"sv2"}, staff_id : {"st1"},
                               date : [fmt : {"ext"}, day : Days],
                               time : TimeStrs \ {[h |-> 25, m |-> 0]}]}
    \cup {<<"s1", [service_id |-> "sv1", staff_id |-> "st1",
                   date |-> [fmt |-> "bad", day |-> 0], time |-> Nine]>>,
          <<"zz", [service_id |-> "sv1", staff_id |-> "st1", date |-> Monday, time |-> Nine]>>,
          <<"zz", [service_id |-> "zz", staff_id |-> "st1", date |-> Monday, time |-> Nine]>>,
          <<"s1", [service_id |-> "zz", staff_id |-> "st1", date |-> Monday, time |-> Nine]>>,
          <<"s1", [service_id |-> "sv1", staff_id |-> "zz", date |-> Monday, time |-> Nine]>>}

\* set-availability payloads, likewise
AvailabilityPayloads ==
    {[business_id |-> "b1", staff_id |-> "st1", weekly |-> WeeklyOf(k),
      slot_increment_min |-> IncrementOf(k)] : k \in 1..2}
    \cup {[business_id |-> "zz", staff_id |-> "st1",
           weekly |-> (0 :> <<Block(540, 600)>>), slot_increment_min |-> 15],
          [business_id |-> "b1", staff_id |-> "zz",
           weekly |-> (0 :> <<Block(540, 600)>>), slot_increment_min |-> 15]}

NoRequest == [op |-> "none"]
Response(code, times, appointment_id, checkout_url) ==
    [code |-> code, times |-> times, appointment_id |-> appointment_id,
     checkout_url |-> checkout_url]

Init ==
    /\ business = BusinessDocs
    /\ staff = StaffDocs
    /\ service = ServiceDocs
    /\ availability = <<>>
    /\ appointment = <<>>
    /\ reminder = <<>>
    /\ sessionCalls = {}
    /\ inflight = [w \in Workers |-> <<>>]
    /\ bizInflight = [w \in Workers |-> <<>>]
    /\ gen = <<>>
    /\ request = NoRequest
    /\ response = Response(0, <<>>, 0, FALSE)

----------------------------------------------------------------------------
(* Operations *)

\* a variant of SetAvailability that merges the new weekly map into the
\* stored one
SetAvailabilityMerging(payload) ==
    /\ request' = [op |-> "availability", payload |-> payload]
    /\ IF payload.business_id \notin DOMAIN business \/ payload.staff_id \notin DOMAIN staff
       THEN /\ response' = Response(400, <<>>, 0, FALSE)
            /\ UNCHANGED availability
       ELSE LET a == AvIndex(payload.business_id, payload.staff_id) IN
            /\ availability' =
                  IF a = 0 THEN Append(availability, payload)
                  ELSE [availability EXCEPT ![a] =
                           [payload EXCEPT !.weekly = payload.weekly @@ availability[a].weekly]]
            /\ response' = Response(200, <<>>, 0, FALSE)
    /\ sessionCalls' = {}
    /\ UNCHANGED <<catalog, appointment, reminder, inflight, bizInflight, gen>>

\* set_availability(payload): upsert keyed on (business_id, staff_id)
SetAvailability(payload) ==
    /\ request' = [op |-> "availability", payload |-> payload]
    /\ IF payload.business_id \notin DOMAIN business \/ payload.staff_id \notin DOMAIN staff
       THEN /\ response' = Response(400, <<>>, 0, FALSE)
            /\ UNCHANGED availability
       ELSE LET a == AvIndex(payload.business_id, payload.staff_id) IN
            /\ availability' = IF a = 0 THEN Append(availability, payload)
                               ELSE [availability EXCEPT ![a] = payload]
            /\ response' = Response(200, <<>>, 0, FALSE)
    /\ sessionCalls' = {}
    /\ UNCHANGED <<catalog, appointment, reminder, inflight, bizInflight, gen>>

\* a variant of ListSlots that writes the default increment back to the
\* availability records
ListSlotsWriting(slug, q) ==
    /\ request' = [op |-> "slots", slug |-> slug, q |-> q]
    /\ LET r == slots(slug, q) IN response' = Response(r.code, r.times, 0, FALSE)
    /\ availability' = [k \in DOMAIN availability |->
                            [availability[k] EXCEPT !.slot_increment_min = 15]]
    /\ sessionCalls' = {}
    /\ UNCHANGED <<catalog, appointment, reminder, inflight, bizInflight, gen>>

\* the slot-listing endpoint POST /api/b/{slug}/slots
ListSlots(slug, q) ==
    /\ request' = [op |-> "slots", slug |-> slug, q |-> q]
    /\ LET r == slots(slug, q) IN response' = Response(r.code, r.times, 0, FALSE)
    /\ sessionCalls' = {}
    /\ UNCHANGED <<catalog, availability, appointment, reminder, inflight, bizInflight, gen>>

\* x in xs for a list
InList(x, xs) == \E k \in 1..Len(xs) : xs[k] = x

\* a variant of BookCheckCode that resolves the service and the staff member
\* before the business
BookCheckCodeServiceFirst(slug, p) ==
    LET b == BizBySlug(slug) IN
    IF p.service_id \notin DOMAIN service \/ p.staff_id \notin DOMAIN staff THEN 400
    ELSE IF b = <<>> THEN 404
    ELSE IF ~(DateParses(p.date) /\ IsValidTime(p.time)) THEN 500
    ELSE LET available == slots(slug, [service_id |-> p.service_id,
                                       staff_id |-> p.staff_id, date |-> p.date])
         IN IF available.code # 200 THEN available.code
            ELSE IF ~InList(p.time, available.times) THEN 409
            ELSE 200

\* book up to the availability re-check (main.py 289-305): the status the
\* request fails with, or 200 when it goes on to insert
BookCheckCode(slug, p) ==
    LET b == BizBySlug(slug) IN
    IF b = <<>> THEN 404
    ELSE IF p.service_id \notin DOMAIN service \/ p.staff_id \notin DOMAIN staff THEN 400
    ELSE IF ~(DateParses(p.date) /\ IsValidTime(p.time)) THEN 500
    ELSE LET available == slots(slug, [service_id |-> p.service_id,
                                       staff_id |-> p.staff_id, date |-> p.date])
         IN IF available.code # 200 THEN available.code
            ELSE IF ~InList(p.time, available.times) THEN 409
            ELSE 200

\* a variant of AmountDue without the full-price fallback
AmountDueNoFallback(biz, svc) == compute_deposit_cents(biz, svc)

\* "if amount_due <= 0: amount_due = amount_total"
AmountDue(biz, svc) ==
    IF compute_deposit_cents(biz, svc) <= 0 THEN svc.price_cents
    ELSE compute_deposit_cents(biz, svc)

\* a variant of book_duration_total that leaves the buffers out
book_duration_service_only(svc) == svc.duration_min

\* duration_total as book computes it (main.py 299)
book_duration_total(svc) ==
    svc.duration_min + svc.buffer_before_min + svc.buffer_after_min

\* the Appointment document book builds (main.py 297-325); a request that
\* leaves out customer_email or customer_phone stores None
NewAppointment(slug, p) ==
    LET b == BizBySlug(slug)[1]
        svc == service[p.service_id]
        start_iso == [date |-> p.date, time |-> p.time]
    IN [business_id |-> b, staff_id |-> p.staff_id, service_id |-> p.service_id,
        customer_email |-> IF "customer_email" \in DOMAIN p
                           THEN p.customer_email ELSE <<>>,
        customer_phone |-> IF "customer_phone" \in DOMAIN p
                           THEN p.customer_phone ELSE <<>>,
        start_iso |-> start_iso,
        end_iso |-> minutes_between(start_iso, book_duration_total(svc)),
        status |-> "pending",
        amount_cents_total |-> svc.price_cents,
        amount_cents_due_now |-> AmountDue(business[b], svc),
        stripe_checkout_session_id |-> <<>>]

\* a variant of BookInsert in which an error of Session.create reaches the
\* caller as a failed request
BookInsertErrorPropagates(slug, p, outcome) ==
    LET appt_id == Len(appointment) + 1 IN
    /\ Len(appointment) < MaxAppts
    /\ appointment' = Append(appointment,
            [NewAppointment(slug, p) EXCEPT !.stripe_checkout_session_id =
                IF outcome = "created" THEN <<"cs">> ELSE <<>>])
    /\ sessionCalls' = IF outcome # "unconfigured" THEN {appt_id} ELSE {}
    /\ response' = IF outcome = "error" THEN Response(500, <<>>, 0, FALSE)
                   ELSE Response(200, <<>>, appt_id, outcome = "created")

\* book from create_document on (main.py 326-362).  outcome is the payment
\* collaborator's part: "unconfigured" (the handling process has no stripe
\* module or no STRIPE_SECRET), "error" (Session.create raised) or "created".
BookInsert(slug, p, outcome) ==
    LET appt_id == Len(appointment) + 1 IN
    /\ Len(appointment) < MaxAppts
    /\ appointment' = Append(appointment,
            [NewAppointment(slug, p) EXCEPT !.stripe_checkout_session_id =
                IF outcome = "created" THEN <<"cs">> ELSE <<>>])
    /\ sessionCalls' = IF outcome # "unconfigured" THEN {appt_id} ELSE {}
    /\ response' = Response(200, <<>>, appt_id, outcome = "created")

PaymentOutcomes == {"unconfigured", "error", "created"}

\* a handled book request, with the payment collaborator's outcome ("none"
\* when the request failed before the insert)
BookRequest(slug, p, outcome) ==
    [op |-> "book", slug |-> slug, p |-> p, outcome |-> outcome]

\* book(slug, payload) handled without another request in between
Book(slug, p) ==
    /\ IF BookCheckCode(slug, p) = 200
       THEN \E outcome \in PaymentOutcomes :
               /\ BookInsert(slug, p, outcome)
               /\ request' = BookRequest(slug, p, outcome)
       ELSE /\ response' = Response(BookCheckCode(slug, p), <<>>, 0, FALSE)
            /\ appointment' = appointment /\ sessionCalls' = {}
            /\ request' = BookRequest(slug, p, "none")
    /\ UNCHANGED <<catalog, availability, reminder, inflight, bizInflight, gen>>

EventTypes == {"payment_intent.succeeded", "checkout.session.completed", "other"}

\* webhook deliveries: whether the handling process has the stripe module and
\* STRIPE_WEBHOOK_SECRET, whether the signature verifies, the event type, the
\* appointment id in the object's metadata (0: absent) and whether the
\* object has a payment_intent field
WebhookEvents ==
    {e \in [configured : BOOLEAN, sig_ok : BOOLEAN, type : EventTypes,
            appointment_id : 0..MaxAppts, payment_intent : BOOLEAN] :
        /\ e.payment_intent => e.type = "checkout.session.completed" /\ e.appointment_id = 0
        /\ e.type = "checkout.session.completed" => e.appointment_id <= 1
        /\ e.type = "other" => e.appointment_id = 0
        /\ ~(e.sig_ok /\ e.configured) =>
              e.type = "payment_intent.succeeded" /\ e.appointment_id = 1}

\* the id stripe_webhook reads from the event: <<>> none, <<0>> a payment
\* intent id (no ObjectId), <<i>> an appointment id
EventApptId(e) ==
    IF e.appointment_id # 0 THEN <<e.appointment_id>>
    ELSE IF e.type = "checkout.session.completed" /\ e.payment_intent THEN <<0>>
    ELSE <<>>

\* a variant of construct_event that accepts any signature
construct_event_unverified(e) == TRUE

\* stripe.Webhook.construct_event(payload, sig_header, secret) returns (it
\* raises when the signature does not verify)
construct_event(e) == e.sig_ok

\* a variant of Confirm that writes a fresh document in place of the
\* matched one
ConfirmReplacing(ap) ==
    [ap EXCEPT !.status = "confirmed", !.stripe_checkout_session_id = <<>>]

\* the update stripe_webhook applies to the matched appointment
Confirm(ap) == [ap EXCEPT !.status = "confirmed"]

\* stripe_webhook(request)
StripeWebhook(e) ==
    /\ request' = [op |-> "webhook", e |-> e]
    /\ IF ~e.configured
       THEN /\ response' = Response(200, <<>>, 0, FALSE)
            /\ UNCHANGED appointment
       ELSE IF ~construct_event(e)
       THEN /\ response' = Response(400, <<>>, 0, FALSE)
            /\ UNCHANGED appointment
       ELSE IF e.type = "other" \/ EventApptId(e) = <<>>
       THEN /\ response' = Response(200, <<>>, 0, FALSE)
            /\ UNCHANGED appointment
       ELSE IF EventApptId(e) = <<0>>
       THEN /\ response' = Response(400, <<>>, 0, FALSE)
            /\ UNCHANGED appointment
       ELSE LET i == EventApptId(e)[1] IN
            /\ appointment' = IF i \in 1..Len(appointment)
                              THEN [appointment EXCEPT ![i] = Confirm(@)]
                              ELSE appointment
            /\ response' = Response(200, <<>>, 0, FALSE)
    /\ sessionCalls' = {}
    /\ UNCHANGED <<catalog, availability, reminder, inflight, bizInflight, gen>>

\* book on worker w up to the re-check; a request that passes is held in
\* inflight[w] until its insert
BookCheckStep(w, slug, p) ==
    /\ inflight[w] = <<>>
    /\ request' = [op |-> "book_check", slug |-> slug, p |-> p]
    /\ IF BookCheckCode(slug, p) = 200
       THEN /\ inflight' = [inflight EXCEPT ![w] = <<[slug |-> slug, p |-> p]>>]
            /\ UNCHANGED response
       ELSE /\ response' = Response(BookCheckCode(slug, p), <<>>, 0, FALSE)
            /\ UNCHANGED inflight
    /\ sessionCalls' = {}
    /\ UNCHANGED <<catalog, availability, appointment, reminder, bizInflight, gen>>

\* a variant of BookInsertStep that repeats the availability check in the
\* same step as the insert
BookInsertStepRechecked(w) ==
    /\ inflight[w] # <<>>
    /\ IF BookCheckCode(inflight[w][1].slug, inflight[w][1].p) = 200
       THEN \E outcome \in PaymentOutcomes :
               /\ BookInsert(inflight[w][1].slug, inflight[w][1].p, outcome)
               /\ request' = BookRequest(inflight[w][1].slug, inflight[w][1].p, outcome)
       ELSE /\ response' = Response(409, <<>>, 0, FALSE)
            /\ appointment' = appointment /\ sessionCalls' = {}
            /\ request' = BookRequest(inflight[w][1].slug, inflight[w][1].p, "none")
    /\ inflight' = [inflight EXCEPT ![w] = <<>>]
    /\ UNCHANGED <<catalog, availability, reminder, bizInflight, gen>>

\* the rest of book on worker w: insert and payment session
BookInsertStep(w) ==
    /\ inflight[w] # <<>>
    /\ \E outcome \in PaymentOutcomes :
          /\ BookInsert(inflight[w][1].slug, inflight[w][1].p, outcome)
          /\ request' = BookRequest(inflight[w][1].slug, inflight[w][1].p, outcome)
    /\ inflight' = [inflight EXCEPT ![w] = <<>>]
    /\ UNCHANGED <<catalog, availability, reminder, bizInflight, gen>>

\* status changes made outside this API on the shared store: cancellation
\* from pending or confirmed, completion from confirmed
ExternalTransitions ==
    {<<"pending", "canceled">>, <<"confirmed", "canceled">>, <<"confirmed", "completed">>}

ExternalStatusChange(i, to) ==
    /\ i \in 1..Len(appointment)
    /\ <<appointment[i].status, to>> \in ExternalTransitions
    /\ appointment' = [appointment EXCEPT ![i].status = to]
    /\ request' = [op |-> "external", i |-> i, to |-> to]
    /\ response' = Response(0, <<>>, 0, FALSE)
    /\ sessionCalls' = {}
    /\ UNCHANGED <<catalog, availability, reminder, inflight, bizInflight, gen>>

----------------------------------------------------------------------------
(* Reminder scheduler and dispatcher *)

\* a <= b for two ISO instant strings as the store compares strings, byte by
\* byte.  Two strings of one format have their fields at the same places, so
\* they compare as their instants do; at index 4 an extended string has "-"
\* and a basic one a digit, and "-" sorts before the digits.
IsoStrLeq(a, b) ==
    IF a.date.fmt = b.date.fmt THEN ParseIso(a) <= ParseIso(b)
    ELSE a.date.fmt = "ext"

\* the appointment query of run_reminders for one offset: confirmed, and
\* start_iso between utc_iso(start_window) and utc_iso(end_window) as strings
InWindow(i, now, hours) ==
    /\ appointment[i].status = "confirmed"
    /\ IsoStrLeq(utc_iso(now + hours * 60 - 5), appointment[i].start_iso)
    /\ IsoStrLeq(appointment[i].start_iso, utc_iso(now + hours * 60 + 5))

\* Reminder(business_id, appointment_id, kind, scheduled_at_iso), queued
NewReminder(i, kind, now) ==
    [business_id |-> appointment[i].business_id, appointment_id |-> i, kind |-> kind,
     scheduled_at_iso |-> utc_iso(now), status |-> "queued", last_error |-> <<>>]

\* the body of "for ap in appts": the reminders created for appointment i
RemindersFor(i, now) ==
    LET b == appointment[i].business_id IN
    IF b \notin DOMAIN business \/ ~business[b].reminders_enabled THEN <<>>
    ELSE (IF business[b].reminders_email_enabled
          THEN <<NewReminder(i, "email", now)>> ELSE <<>>)
         \o (IF business[b].reminders_sms_enabled
             THEN <<NewReminder(i, "sms", now)>> ELSE <<>>)

\* the reminders one offset creates, for the appointments from index i on
RECURSIVE WindowReminders(_, _, _)
WindowReminders(i, now, hours) ==
    IF i > Len(appointment) THEN <<>>
    ELSE (IF InWindow(i, now, hours) THEN RemindersFor(i, now) ELSE <<>>)
         \o WindowReminders(i + 1, now, hours)

\* run_reminders(): "for hours in (24, 2)"
run_reminders(now) == WindowReminders(1, now, 24) \o WindowReminders(1, now, 2)

\* the scheduler endpoint POST /api/cron/reminders, invoked at instant now
RunReminders(now) ==
    /\ Len(reminder) + Len(run_reminders(now)) <= MaxReminders
    /\ reminder' = reminder \o run_reminders(now)
    /\ request' = [op |-> "run_reminders", now |-> now]
    /\ response' = Response(200, <<>>, 0, FALSE)
    /\ sessionCalls' = {}
    /\ UNCHANGED <<catalog, availability, appointment, inflight, bizInflight, gen>>

\* find({"status": "queued"}).limit(50)
BatchLimit == 50

\* a variant of Drainable that takes the failed reminders again
DrainableWithFailed(r) == r.status \in {"queued", "failed"}

\* the filter of the dispatcher's query
Drainable(r) == r.status = "queued"

\* the indices of the first BatchLimit reminders the query matches
Drained ==
    {k \in 1..Len(reminder) :
        /\ Drainable(reminder[k])
        /\ Cardinality({j \in 1..k : Drainable(reminder[j])}) <= BatchLimit}

\* the dispatcher's process configuration and what the providers do during
\* one invocation.  resend: RESEND_API_KEY is set; twilio: the three TWILIO
\* variables are set and the twilio package is importable; email, sms: the
\* provider's calls succeed ("ok") or raise or answer outside 2xx ("error").
DispatchInputs ==
    {c \in [resend : BOOLEAN, twilio : BOOLEAN,
            email : {"ok", "error"}, sms : {"ok", "error"}] :
        /\ ~c.resend => c.email = "ok"
        /\ ~c.twilio => c.sms = "ok"}

\* a variant of DispatchOne without the demo fallback: a reminder that no
\* provider takes stays as it is
DispatchOneNoFallback(r, c) ==
    IF r.appointment_id \notin 1..Len(appointment)
    THEN [r EXCEPT !.status = "failed", !.last_error = <<"Appointment not found">>]
    ELSE LET ap == appointment[r.appointment_id] IN
         IF r.kind = "email" /\ c.resend /\ ap.customer_email # <<>>
         THEN IF c.email = "ok" THEN [r EXCEPT !.status = "sent"]
              ELSE [r EXCEPT !.status = "failed", !.last_error = <<"provider error">>]
         ELSE IF r.kind = "sms" /\ c.twilio /\ ap.customer_phone # <<>>
         THEN IF c.sms = "ok" THEN [r EXCEPT !.status = "sent"]
              ELSE [r EXCEPT !.status = "failed", !.last_error = <<"provider error">>]
         ELSE r

\* the body of "for r in queued" (main.py 494-536): the reminder after it
DispatchOne(r, c) ==
    IF r.appointment_id \notin 1..Len(appointment)
    THEN [r EXCEPT !.status = "failed", !.last_error = <<"Appointment not found">>]
    ELSE LET ap == appointment[r.appointment_id] IN
         IF r.kind = "email" /\ c.resend /\ ap.customer_email # <<>>
         THEN IF c.email = "ok" THEN [r EXCEPT !.status = "sent"]
              ELSE [r EXCEPT !.status = "failed", !.last_error = <<"provider error">>]
         ELSE IF r.kind = "sms" /\ c.twilio /\ ap.customer_phone # <<>>
         THEN IF c.sms = "ok" THEN [r EXCEPT !.status = "sent"]
              ELSE [r EXCEPT !.status = "failed", !.last_error = <<"provider error">>]
         ELSE [r EXCEPT !.status = "sent",
                        !.last_error = <<"No provider configured; marked sent in demo">>]

\* the dispatcher endpoint POST /api/reminders/send
SendReminders(c) ==
    LET queued == Drained
        after == [k \in 1..Len(reminder) |->
                     IF k \in queued THEN DispatchOne(reminder[k], c) ELSE reminder[k]]
    IN
    /\ reminder' = after
    /\ request' = [op |-> "send_reminders", c |-> c]
    /\ response' =
          [code |-> 200, times |-> <<>>, appointment_id |-> 0, checkout_url |-> FALSE,
           sent |-> Cardinality({k \in queued : after[k].status = "sent"}),
           failed |-> Cardinality({k \in queued : after[k].status = "failed"})]
    /\ sessionCalls' = {}
    /\ UNCHANGED <<catalog, availability, appointment, inflight, bizInflight, gen>>

----------------------------------------------------------------------------
(* Business creation *)

\* the ObjectIds the store hands out to new business documents, in order
NewBizIds == <<"b2", "b3", "b4", "b5">>

\* create-business payloads: a slug in use from the start and a free one,
\* with deposit defaults inside and outside 0..100
CreateBusinessPayloads == [slug : {"s1", "s2"}, deposit_percent_default : {0, 20, 150}]

\* Business(...) validates: deposit_percent_default has ge=0, le=100
BusinessValidates(payload) == payload.deposit_percent_default \in 0..100

\* the stored document of create_business: the Business model's defaults and
\* the ics token written by the update that follows the insert
NewBusiness(payload, id) ==
    [slug |-> payload.slug,
     deposit_percent_default |-> payload.deposit_percent_default,
     ics_token |-> <<id>>,
     reminders_enabled |-> TRUE, reminders_email_enabled |-> TRUE,
     reminders_sms_enabled |-> FALSE]

\* create_document("business", biz): the store inserts the document under a
\* new id; it has no uniqueness constraint on slug
InsertBusiness(id, doc) == business @@ (id :> doc)

\* db["business"].find_one({"slug": payload.slug}) finds a document
SlugInUse(slug) == BizBySlug(slug) # <<>>

\* create_business up to the slug lookup (main.py 145-146) on worker w; a
\* request whose slug is free is held in bizInflight[w] until its insert
CreateBusinessCheck(w, payload) ==
    /\ bizInflight[w] = <<>>
    /\ request' = [op |-> "create_business_check", payload |-> payload]
    /\ IF SlugInUse(payload.slug)
       THEN /\ response' = Response(400, <<>>, 0, FALSE)
            /\ UNCHANGED bizInflight
       ELSE /\ bizInflight' = [bizInflight EXCEPT ![w] = <<payload>>]
            /\ UNCHANGED response
    /\ sessionCalls' = {}
    /\ UNCHANGED <<catalog, availability, appointment, reminder, inflight, gen>>

\* the rest of create_business on worker w (main.py 147-160): validation,
\* create_document, the ics token, the response
CreateBusinessInsert(w) ==
    /\ bizInflight[w] # <<>>
    /\ Cardinality(DOMAIN business) < MaxBiz
    /\ request' = [op |-> "create_business", payload |-> bizInflight[w][1]]
    /\ IF ~BusinessValidates(bizInflight[w][1])
       THEN /\ response' = Response(500, <<>>, 0, FALSE)
            /\ UNCHANGED business
       ELSE LET id == NewBizIds[Cardinality(DOMAIN business)] IN
            /\ business' = InsertBusiness(id, NewBusiness(bizInflight[w][1], id))
            /\ response' = Response(200, <<>>, 0, FALSE)
    /\ bizInflight' = [bizInflight EXCEPT ![w] = <<>>]
    /\ sessionCalls' = {}
    /\ UNCHANGED <<staff, service, availability, appointment, reminder, inflight, gen>>

----------------------------------------------------------------------------
(* generate_slots, one loop iteration at a time *)

\* BlockSlots above is the result of the while loop when it ends.  The
\* actions below follow the same loop iteration by iteration, for the
\* increments with which the loop's end is in question.

\* the status slots or book fails with before generate_slots reaches its
\* block loop (main.py 272-277 and 226-228; 287-300), or 200
GenPreCode(op, slug, p) ==
    LET b == BizBySlug(slug) IN
    IF b = <<>> THEN 404
    ELSE IF op = "slots"
    THEN IF p.service_id \notin DOMAIN service THEN 404
         ELSE IF AvIndex(b[1], p.staff_id) # 0 /\ ~DateParses(p.date) THEN 500
         ELSE 200
    ELSE IF p.service_id \notin DOMAIN service \/ p.staff_id \notin DOMAIN staff THEN 400
         ELSE IF ~(DateParses(p.date) /\ IsValidTime(p.time)) THEN 500
         ELSE 200

\* the candidate the loop over a list of blocks starts with: "t = start_min"
FirstCandidate(blocks) == IF blocks = <<>> THEN 0 ELSE Head(blocks).start_min

\* the locals of generate_slots when it reaches "for block in day_blocks"
\* (main.py 227-249): blocks are the blocks not yet finished, the first of
\* them the current one, t is the current candidate, and pc is "test" at
\* the while condition and "body" inside the loop body.  Without an
\* availability record generate_slots returns [] at once, which is the loop
\* over no blocks.  appts are the fetched appointments, of which the loop
\* reads start_iso and end_iso, which no request changes.
GenLocals(op, slug, p) ==
    LET b == BizBySlug(slug)[1]
        a == AvIndex(b, p.staff_id)
        day_blocks == IF a = 0 THEN <<>>
                      ELSE DayBlocks(availability[a], Weekday(p.date))
    IN [op |-> op, slug |-> slug, p |-> p,
        blocks |-> day_blocks,
        t |-> FirstCandidate(day_blocks),
        duration_total |-> DurationTotal(service[p.service_id]),
        increment |-> IF a = 0 THEN 15 ELSE availability[a].slot_increment_min,
        day_start |-> p.date.day * MinutesPerDay,
        appts |-> FetchAppts(b, p.staff_id, p.date),
        slots |-> <<>>,
        pc |-> "test"]

\* slots or book up to the block loop of generate_slots
GenEnter(op, slug, p) ==
    /\ gen = <<>>
    /\ op = "book" => Len(appointment) < MaxAppts
    /\ request' = [op |-> op, slug |-> slug, p |-> p]
    /\ IF GenPreCode(op, slug, p) = 200
       THEN /\ gen' = <<GenLocals(op, slug, p)>>
            /\ UNCHANGED response
       ELSE /\ gen' = <<>>
            /\ response' = Response(GenPreCode(op, slug, p), <<>>, 0, FALSE)
    /\ sessionCalls' = {}
    /\ UNCHANGED <<store, inflight, bizInflight>>

\* "t += increment"
LoopAdvance(t, increment) == t + increment

\* the while condition (main.py 254): into the body when it holds, on to the
\* next block when it does not
GenTest ==
    /\ gen # <<>>
    /\ gen[1].pc = "test"
    /\ gen[1].blocks # <<>>
    /\ LET g == gen[1] IN
       gen' = IF SlotFits(g.t, g.duration_total, Head(g.blocks).end_min)
              THEN <<[g EXCEPT !.pc = "body"]>>
              ELSE <<[g EXCEPT !.blocks = Tail(@),
                               !.t = FirstCandidate(Tail(g.blocks))]>>
    /\ UNCHANGED <<store, sessionCalls, inflight, bizInflight, request, response>>

\* the loop body (main.py 255-267): the conflict scan, the append and the
\* advance of t.  A list that keeps growing ends the request in an unhandled
\* error, MemoryError when the process cannot extend it and, with a falling
\* t, OverflowError when slot_start leaves the range of datetime; the model
\* places that end at MaxSlots collected slots.
GenBody ==
    /\ gen # <<>>
    /\ gen[1].pc = "body"
    /\ LET g == gen[1]
           slot_start == g.day_start + g.t
           slot_end == slot_start + g.duration_total
       IN IF Conflict(slot_start, slot_end, g.appts)
          THEN /\ gen' = <<[g EXCEPT !.t = LoopAdvance(g.t, g.increment),
                                     !.pc = "test"]>>
               /\ UNCHANGED response
          ELSE IF Len(g.slots) < MaxSlots
          THEN /\ gen' = <<[g EXCEPT !.slots = Append(@, utc_iso(slot_start)),
                                     !.t = LoopAdvance(g.t, g.increment),
                                     !.pc = "test"]>>
               /\ UNCHANGED response
          ELSE /\ gen' = <<>>
               /\ response' = Response(500, <<>>, 0, FALSE)
    /\ UNCHANGED <<store, sessionCalls, inflight, bizInflight, request>>

\* "return slots" and the rest of the caller: slots formats the times
\* (main.py 280-281), book tests the requested time and inserts
\* (main.py 304-362)
GenReturn ==
    /\ gen # <<>>
    /\ gen[1].pc = "test"
    /\ gen[1].blocks = <<>>
    /\ LET g == gen[1]
           times == FormatTimes(g.slots)
       IN IF g.op = "slots"
          THEN /\ response' = Response(200, times, 0, FALSE)
               /\ appointment' = appointment /\ sessionCalls' = {}
          ELSE IF ~InList(g.p.time, times)
          THEN /\ response' = Response(409, <<>>, 0, FALSE)
               /\ appointment' = appointment /\ sessionCalls' = {}
          ELSE \E outcome \in PaymentOutcomes : BookInsert(g.slug, g.p, outcome)
    /\ gen' = <<>>
    /\ UNCHANGED <<catalog, availability, reminder, inflight, bizInflight, request>>

----------------------------------------------------------------------------
(* Specifications *)

\* requests handled one at a time
Next ==
    \/ \E payload \in AvailabilityPayloads : SetAvailability(payload)
    \/ \E i \in SlotInputs : ListSlots(i[1], i[2])
    \/ \E i \in BookInputs : Book(i[1], i[2])
    \/ \E e \in WebhookEvents : StripeWebhook(e)

Spec == Init /\ [][Next]_vars

\* book requests of the two smaller specifications: both services on
\* Monday "2024-01-01" at 09:00 and 09:30
SmallBookInputs ==
    {<<"s1", p>> : p \in [service_id : {"sv1", "sv2"}, staff_id : {"st1"},
                          date : {Monday}, time : {Nine, [h |-> 9, m |-> 30]}]}

\* requests handled one at a time, with appointments also canceled or
\* completed from outside
NextExt ==
    \/ \E payload \in AvailabilityPayloads : SetAvailability(payload)
    \/ \E i \in SmallBookInputs : Book(i[1], i[2])
    \/ \E e \in WebhookEvents : StripeWebhook(e)
    \/ \E i \in 1..MaxAppts, to \in {"canceled", "completed"} : ExternalStatusChange(i, to)

SpecExt == Init /\ [][NextExt]_vars

\* book requests on two workers, interleaved between re-check and insert
NextConc ==
    \/ \E payload \in AvailabilityPayloads : SetAvailability(payload)
    \/ \E w \in Workers, i \in SmallBookInputs : BookCheckStep(w, i[1], i[2])
    \/ \E w \in Workers : BookInsertStep(w)
    \/ \E e \in WebhookEvents : StripeWebhook(e)

SpecConc == Init /\ [][NextConc]_vars

\* a catalog with a second staff member, for set-availability requests on
\* two (business, staff) pairs
StaffDocsTwo == [s \in {"st1", "st2"} |-> [business_id |-> "b1"]]

AvailabilityPayloadsTwo ==
    [business_id : {"b1"}, staff_id : {"st1", "st2"},
     weekly : {WeeklyOf(1), WeeklyOf(2)}, slot_increment_min : {15, 30}]
    \cup {[business_id |-> "zz", staff_id |-> "st1",
           weekly |-> WeeklyOf(1), slot_increment_min |-> 15],
          [business_id |-> "b1", staff_id |-> "zz",
           weekly |-> WeeklyOf(1), slot_increment_min |-> 15]}

InitAv ==
    /\ business = BusinessDocs
    /\ staff = StaffDocsTwo
    /\ service = ServiceDocs
    /\ availability = <<>>
    /\ appointment = <<>>
    /\ reminder = <<>>
    /\ sessionCalls = {}
    /\ inflight = [w \in Workers |-> <<>>]
    /\ bizInflight = [w \in Workers |-> <<>>]
    /\ gen = <<>>
    /\ request = NoRequest
    /\ response = Response(0, <<>>, 0, FALSE)

\* set-availability requests handled one at a time
NextAv == \E payload \in AvailabilityPayloadsTwo : SetAvailability(payload)

SpecAv == InitAv /\ [][NextAv]_vars

\* the reminder toggles of the business: the Business model's defaults
\* (email only), both channels, reminders disabled, and sms only
ToggleSets ==
    {[reminders_enabled |-> TRUE, reminders_email_enabled |-> TRUE,
      reminders_sms_enabled |-> FALSE],
     [reminders_enabled |-> TRUE, reminders_email_enabled |-> TRUE,
      reminders_sms_enabled |-> TRUE],
     [reminders_enabled |-> FALSE, reminders_email_enabled |-> TRUE,
      reminders_sms_enabled |-> TRUE],
     [reminders_enabled |-> TRUE, reminders_email_enabled |-> FALSE,
      reminders_sms_enabled |-> TRUE]}

\* two bookings with customer contacts, made before the modelled requests:
\* Monday "20240101" at 09:00 and Tuesday "2024-01-02" at 09:00
ReminderBookings ==
    <<[service_id |-> "sv1", staff_id |-> "st1", date |-> [fmt |-> "basic", day |-> 0],
       time |-> Nine, customer_email |-> <<"e">>, customer_phone |-> <<"p">>],
      [service_id |-> "sv1", staff_id |-> "st1", date |-> [fmt |-> "ext", day |-> 1],
       time |-> Nine, customer_email |-> <<"e">>, customer_phone |-> <<"p">>]>>

\* the scheduler's clock: 2 hours before the Monday booking, and 2 hours
\* less 5 minutes before the Tuesday booking
NowValues == {420, 1865}

\* the reminders of n earlier scheduler invocations, 24 hours before the
\* Tuesday booking
RECURSIVE EarlierRuns(_)
EarlierRuns(n) == IF n = 0 THEN <<>> ELSE EarlierRuns(n - 1) \o RemindersFor(2, 540)

Backlog ==
    LET all == EarlierRuns(BacklogLen)
    IN SubSeq(all, 1, IF Len(all) < BacklogLen THEN Len(all) ELSE BacklogLen)

\* webhook deliveries that confirm the Monday booking
ReminderWebhookEvents ==
    {e \in WebhookEvents : /\ e.configured /\ e.sig_ok /\ e.appointment_id = 1
                           /\ e.type = "payment_intent.succeeded"}

\* a store in which the two bookings were made, the Tuesday one was
\* confirmed, and the scheduler has run for it
InitReminders ==
    /\ \E tg \in ToggleSets :
          business = [b \in {"b1"} |->
                        [BusinessDocs[b] EXCEPT
                            !.reminders_enabled = tg.reminders_enabled,
                            !.reminders_email_enabled = tg.reminders_email_enabled,
                            !.reminders_sms_enabled = tg.reminders_sms_enabled]]
    /\ staff = StaffDocs
    /\ service = ServiceDocs
    /\ availability = <<[business_id |-> "b1", staff_id |-> "st1", weekly |-> WeeklyOf(2),
                         slot_increment_min |-> IncrementOf(2)]>>
    /\ appointment = <<NewAppointment("s1", ReminderBookings[1]),
                       [NewAppointment("s1", ReminderBookings[2]) EXCEPT
                           !.status = "confirmed"]>>
    /\ reminder = Backlog
    /\ sessionCalls = {}
    /\ inflight = [w \in Workers |-> <<>>]
    /\ bizInflight = [w \in Workers |-> <<>>]
    /\ gen = <<>>
    /\ request = NoRequest
    /\ response = Response(0, <<>>, 0, FALSE)

\* payment confirmations, scheduler and dispatcher invocations, one at a time
NextReminders ==
    \/ \E e \in ReminderWebhookEvents : StripeWebhook(e)
    \/ \E now \in NowValues : RunReminders(now)
    \/ \E c \in DispatchInputs : SendReminders(c)

SpecReminders == InitReminders /\ [][NextReminders]_vars

\* the dispatcher is invoked again and again
SpecRemindersFair ==
    SpecReminders /\ WF_vars(\E c \in DispatchInputs : SendReminders(c))

\* create-business requests on two workers, interleaved between the slug
\* lookup and the insert
NextBiz ==
    \/ \E w \in Workers, payload \in CreateBusinessPayloads : CreateBusinessCheck(w, payload)
    \/ \E w \in Workers : CreateBusinessInsert(w)

SpecBiz == Init /\ [][NextBiz]_vars

\* set-availability requests with a positive, a zero and a negative
\* slot_increment_min, none of which SetAvailability (main.py 98-102) or
\* Availability (schemas.py 64-69) constrains
AvailabilityPayloadsGen ==
    [business_id : {"b1"}, staff_id : {"st1"},
     weekly : {WeeklyOf(1), WeeklyOf(2)}, slot_increment_min : {15, 0, -15}]

\* slot queries and book requests that run generate_slots
GenInputs ==
    {<<"slots", i[1], i[2]>> : i \in SlotInputs}
    \cup {<<"book", i[1], i[2]>> : i \in SmallBookInputs}

\* set-availability, slot-listing and book requests handled one at a time,
\* the latter two one step of the loop of generate_slots at a time
NextGen ==
    \/ gen = <<>> /\ \E payload \in AvailabilityPayloadsGen : SetAvailability(payload)
    \/ \E i \in GenInputs : GenEnter(i[1], i[2], i[3])
    \/ GenTest
    \/ GenBody
    \/ GenReturn

SpecGen == Init /\ [][NextGen]_vars

\* a request that is being handled goes on running
SpecGenFair ==
    SpecGen /\ WF_vars(GenTest) /\ WF_vars(GenBody) /\ WF_vars(GenReturn)

\* a catalog with a second business, "b2" with slug "s2", that has no staff
\* member and no service of its own
BusinessDocsTwo ==
    [b \in {"b1", "b2"} |->
        [BusinessDocs["b1"] EXCEPT !.slug = IF b = "b1" THEN "s1" ELSE "s2",
                                   !.ics_token = <<b>>]]

\* set-availability requests that give the staff member of "b1" the Monday
\* block 9:00-10:00 under either business
AvailabilityPayloadsCross ==
    [business_id : {"b1", "b2"}, staff_id : {"st1"},
     weekly : {WeeklyOf(1)}, slot_increment_min : {15}]

\* slot queries and book requests for that staff member and the services
\* of "b1", under either slug
SlotInputsCross ==
    {<<slug, q>> : slug \in {"s1", "s2"},
                   q \in [service_id : {"sv1"}, staff_id : {"st1"}, date : {Monday}]}

BookInputsCross ==
    {<<slug, p>> : slug \in {"s1", "s2"},
                   p \in [service_id : {"sv1", "sv2"}, staff_id : {"st1"},
                          date : {Monday}, time : {Nine, [h |-> 9, m |-> 30]}]}

InitCross ==
    /\ business = BusinessDocsTwo
    /\ staff = StaffDocs
    /\ service = ServiceDocs
    /\ availability = <<>>
    /\ appointment = <<>>
    /\ reminder = <<>>
    /\ sessionCalls = {}
    /\ inflight = [w \in Workers |-> <<>>]
    /\ bizInflight = [w \in Workers |-> <<>>]
    /\ gen = <<>>
    /\ request = NoRequest
    /\ response = Response(0, <<>>, 0, FALSE)

\* requests of two businesses, handled one at a time
NextCross ==
    \/ \E payload \in AvailabilityPayloadsCross : SetAvailability(payload)
    \/ \E i \in SlotInputsCross : ListSlots(i[1], i[2])
    \/ \E i \in BookInputsCross : Book(i[1], i[2])

SpecCross == InitCross /\ [][NextCross]_vars

\* prices, deposit overrides and business defaults as Service
\* (schemas.py 50-57) and Business (schemas.py 37) admit them: a price of 0,
\* prices whose percentage floors to 0, an absent override and overrides of
\* 0, 1 and 100 percent
PriceValues == {0, 1, 99, 10000}
OverrideValues == {<<>>, <<0>>, <<1>>, <<100>>}
DefaultPercentValues == {0, 20, 100}

\* book requests for the one service of the deposit specification
BookInputsDeposit ==
    {<<"s1", p>> : p \in [service_id : {"sv1"}, staff_id : {"st1"},
                          date : {Monday}, time : {Nine, [h |-> 9, m |-> 30]}]}

\* a catalog of one business and one service with any of these values
InitDeposit ==
    /\ \E d \in DefaultPercentValues :
          business = [b \in {"b1"} |->
                        [BusinessDocs[b] EXCEPT !.deposit_percent_default = d]]
    /\ staff = StaffDocs
    /\ \E price \in PriceValues, ov \in OverrideValues :
          service = [v \in {"sv1"} |->
                        [ServiceDocs[v] EXCEPT !.price_cents = price,
                                               !.deposit_percent_override = ov]]
    /\ availability = <<>>
    /\ appointment = <<>>
    /\ reminder = <<>>
    /\ sessionCalls = {}
    /\ inflight = [w \in Workers |-> <<>>]
    /\ bizInflight = [w \in Workers |-> <<>>]
    /\ gen = <<>>
    /\ request = NoRequest
    /\ response = Response(0, <<>>, 0, FALSE)

\* set-availability and book requests, handled one at a time
NextDeposit ==
    \/ \E payload \in AvailabilityPayloads : SetAvailability(payload)
    \/ \E i \in BookInputsDeposit : Book(i[1], i[2])

SpecDeposit == InitDeposit /\ [][NextDeposit]_vars

----------------------------------------------------------------------------
(* Properties *)

Start(ap) == ParseIso(ap.start_iso)
End(ap) == ParseIso(ap.end_iso)
Active(i) == appointment[i].status \in ActiveStatuses
SamePair(i, j) ==
    /\ appointment[i].business_id = appointment[j].business_id
    /\ appointment[i].staff_id = appointment[j].staff_id
Overlapping(i, j) ==
    overlaps(Start(appointment[i]), End(appointment[i]),
             Start(appointment[j]), End(appointment[j]))

\* the (business, staff, service, date) of a slot computation; the date is
\* one that parses
ParsedDates == {d \in DateStrs : DateParses(d)}
SlotArgs == [business_id : DOMAIN business, staff_id : DOMAIN staff,
             service_id : DOMAIN service, date : ParsedDates]
IncrementFor(x) ==
    IF AvIndex(x.business_id, x.staff_id) = 0 THEN 15
    ELSE availability[AvIndex(x.business_id, x.staff_id)].slot_increment_min
SlotsFor(x) ==
    generate_slots(x.business_id, x.staff_id, service[x.service_id], x.date,
                   IncrementFor(x)).slots
BlocksFor(x) ==
    IF AvIndex(x.business_id, x.staff_id) = 0 THEN <<>>
    ELSE DayBlocks(availability[AvIndex(x.business_id, x.staff_id)], Weekday(x.date))

\* C1: with requests handled one at a time, no two pending or confirmed
\* appointments of the same (business_id, staff_id) have overlapping
\* half-open intervals [start_iso, end_iso).
C1_NoDoubleBooking ==
    \A i, j \in 1..Len(appointment) :
        (i < j /\ SamePair(i, j) /\ Active(i) /\ Active(j)) => ~Overlapping(i, j)

\* C2: a book request that passed the availability re-check inserts its
\* appointment whatever other requests have inserted since: nothing between
\* the check and the insert looks at the store again.
C2_InsertAfterCheckIsUnconditional ==
    [][\A w \in Workers :
          (inflight[w] # <<>> /\ inflight'[w] = <<>>) =>
              /\ Len(appointment') = Len(appointment) + 1
              /\ appointment'[Len(appointment')].start_iso =
                     [date |-> inflight[w][1].p.date, time |-> inflight[w][1].p.time]
              /\ appointment'[Len(appointment')].staff_id = inflight[w][1].p.staff_id
              /\ appointment'[Len(appointment')].status = "pending"]_vars

\* C2 (witness): two pending appointments of one staff member with the same
\* date string and overlapping intervals, left by two interleaved requests.
C2_TwoOverlappingPending ==
    \E i, j \in 1..Len(appointment) :
        /\ i < j /\ SamePair(i, j) /\ Overlapping(i, j)
        /\ appointment[i].status = "pending" /\ appointment[j].status = "pending"
        /\ appointment[i].start_iso.date = appointment[j].start_iso.date

\* C3: no slot that generate_slots returns for (business, staff, service,
\* date) overlaps a pending or confirmed appointment of that business and
\* staff member whose start is on that calendar date.
C3_SlotsAvoidAppointments ==
    \A x \in SlotArgs :
        \A k \in 1..Len(SlotsFor(x)) :
            \A i \in 1..Len(appointment) :
                ( /\ appointment[i].business_id = x.business_id
                  /\ appointment[i].staff_id = x.staff_id
                  /\ Active(i)
                  /\ Start(appointment[i]) \div MinutesPerDay = x.date.day )
                => ~overlaps(ParseIso(SlotsFor(x)[k]),
                             ParseIso(SlotsFor(x)[k]) + DurationTotal(service[x.service_id]),
                             Start(appointment[i]), End(appointment[i]))

\* the slots generate_slots emits from one block of the requested weekday
SlotsOfBlock(x, block) ==
    BlockSlots(block.start_min, block.end_min, DurationTotal(service[x.service_id]),
               IncrementFor(x), x.date.day * MinutesPerDay,
               FetchAppts(x.business_id, x.staff_id, x.date))

\* C4: every slot start t emitted from a block [s, e) of the requested
\* weekday has t >= s and t + duration + buffers <= e, and a block with
\* s >= e contributes no slot.
C4_SlotsInsideBlock ==
    \A x \in SlotArgs :
        \A b \in 1..Len(BlocksFor(x)) :
            LET block == BlocksFor(x)[b]
                emitted == SlotsOfBlock(x, block)
            IN /\ \A k \in 1..Len(emitted) :
                     LET t == ParseIso(emitted[k]) - x.date.day * MinutesPerDay
                     IN /\ t >= block.start_min
                        /\ t + DurationTotal(service[x.service_id]) <= block.end_min
               /\ block.start_min >= block.end_min => emitted = <<>>

\* C4 (witness): a stored weekday has a negative-width block next to a block
\* that does emit slots.
C4_Witness ==
    \E x \in SlotArgs :
        /\ \E b \in 1..Len(BlocksFor(x)) :
              BlocksFor(x)[b].start_min > BlocksFor(x)[b].end_min
        /\ \E b \in 1..Len(BlocksFor(x)) : SlotsOfBlock(x, BlocksFor(x)[b]) # <<>>

\* the reference sequence of C5 for one block: s, s+inc, ... while the slot
\* fits, less the starts that overlap a pending or confirmed appointment of
\* the business and staff member
RefStarts(block, total, inc) ==
    IF block.start_min + total > block.end_min THEN <<>>
    ELSE [k \in 1..((block.end_min - total - block.start_min) \div inc + 1) |->
              block.start_min + (k - 1) * inc]

RefFree(x, t) ==
    \A i \in 1..Len(appointment) :
        ( /\ appointment[i].business_id = x.business_id
          /\ appointment[i].staff_id = x.staff_id
          /\ Active(i) )
        => LET a == x.date.day * MinutesPerDay + t
           IN (a + DurationTotal(service[x.service_id]) <= Start(appointment[i])
               \/ a >= End(appointment[i]))

RECURSIVE RefSlots(_, _)
RefSlots(x, blocks) ==
    IF blocks = <<>> THEN <<>>
    ELSE SelectSeq(RefStarts(Head(blocks), DurationTotal(service[x.service_id]),
                             IncrementFor(x)),
                   LAMBDA t : RefFree(x, t))
         \o RefSlots(x, Tail(blocks))

SlotMinutes(x) ==
    [k \in 1..Len(SlotsFor(x)) |-> ParseIso(SlotsFor(x)[k]) - x.date.day * MinutesPerDay]

\* C5: for a positive increment generate_slots returns the reference
\* sequence: per block in stored order the starts s, s+inc, ... that fit,
\* ascending, less exactly those overlapping a pending or confirmed
\* appointment, concatenated without sorting or de-duplication; and the
\* Monday block [540,600) at increment 15 with a 30-minute service and no
\* appointments yields 09:00, 09:15, 09:30.
C5_MatchesReference ==
    /\ \A x \in SlotArgs : SlotMinutes(x) = RefSlots(x, BlocksFor(x))
    /\ \A x \in SlotArgs :
          ( /\ BlocksFor(x) = <<Block(540, 600)>> /\ IncrementFor(x) = 15
            /\ DurationTotal(service[x.service_id]) = 30 /\ appointment = <<>> )
          => FormatTimes(SlotsFor(x)) =
                <<[h |-> 9, m |-> 0], [h |-> 9, m |-> 15], [h |-> 9, m |-> 30]>>

\* the business, service and staff member of a book request resolve
Resolves(slug, p) ==
    /\ BizBySlug(slug) # <<>>
    /\ p.service_id \in DOMAIN service
    /\ p.staff_id \in DOMAIN staff

\* the time of a book request is in the slot list computed from the store
Listed(slug, p) ==
    LET r == slots(slug, [service_id |-> p.service_id, staff_id |-> p.staff_id,
                          date |-> p.date])
    IN r.code = 200 /\ InList(p.time, r.times)

\* floor(price * pct / 100) with pct the override if present else the
\* business default, or the price when that floor is 0
ExpectedDue(slug, p) ==
    LET svc == service[p.service_id]
        pct == IF Len(svc.deposit_percent_override) = 1
               THEN svc.deposit_percent_override[1]
               ELSE business[BizBySlug(slug)[1]].deposit_percent_default
        floor == (svc.price_cents * pct) \div 100
    IN IF floor = 0 THEN svc.price_cents ELSE floor

\* C6: a book request whose business, service and staff resolve and whose
\* time is in the current slot list succeeds and inserts exactly one new
\* appointment: pending, amount_cents_total = price_cents and
\* amount_cents_due_now = floor(price * pct / 100), or the price when that
\* is 0.
C6_ListedBookingInserts ==
    [][(request'.op = "book" /\ Resolves(request'.slug, request'.p)
            /\ Listed(request'.slug, request'.p)) =>
          LET n == Len(appointment) + 1 IN
          /\ response'.code = 200
          /\ response'.appointment_id = n
          /\ Len(appointment') = n
          /\ SubSeq(appointment', 1, n - 1) = appointment
          /\ appointment'[n].status = "pending"
          /\ appointment'[n].amount_cents_total =
                 service[request'.p.service_id].price_cents
          /\ appointment'[n].amount_cents_due_now =
                 ExpectedDue(request'.slug, request'.p)]_vars

\* C6 (witness): a booking was just inserted whose deposit floors to 0 and
\* is therefore the full price, after one with a 20 percent deposit.
C6_Witness ==
    /\ request.op = "book" /\ response.code = 200 /\ Len(appointment) = 2
    /\ appointment[1].amount_cents_due_now = 2000
    /\ appointment[1].amount_cents_total = 10000
    /\ appointment[2].amount_cents_due_now = 50
    /\ appointment[2].amount_cents_total = 50

\* C7: a book request whose time is not in the current slot list fails with
\* 409 and leaves the store unchanged, with no payment session requested.
C7_UnlistedBookingIs409 ==
    [][(request'.op = "book" /\ Resolves(request'.slug, request'.p)
            /\ ~Listed(request'.slug, request'.p)) =>
          /\ response'.code = 409
          /\ appointment' = appointment
          /\ sessionCalls' = {}]_vars

\* C8: an appointment's status changes only along pending -> confirmed ->
\* completed or from pending or confirmed to canceled; a payment
\* confirmation never sets a canceled or completed appointment to confirmed.
C8_StatusMonotonic ==
    [][\A i \in 1..Len(appointment) :
          \/ appointment'[i].status = appointment[i].status
          \/ <<appointment[i].status, appointment'[i].status>> \in
                {<<"pending", "confirmed">>, <<"confirmed", "completed">>,
                 <<"pending", "canceled">>, <<"confirmed", "canceled">>}]_vars

\* C9: an appointment enters the store only through book, in status pending,
\* and becomes confirmed only in a webhook step whose process is configured,
\* whose signature verified and whose event carries that appointment's id.
C9_ConfirmedOnlyByVerifiedEvent ==
    [][\A i \in 1..Len(appointment') :
          IF i > Len(appointment)
          THEN request'.op = "book" /\ appointment'[i].status = "pending"
          ELSE (appointment'[i].status = "confirmed"
                    /\ appointment[i].status # "confirmed") =>
                 /\ request'.op = "webhook"
                 /\ request'.e.configured
                 /\ request'.e.sig_ok
                 /\ request'.e.type # "other"
                 /\ request'.e.appointment_id = i]_vars

\* C9 (witness): the second appointment was just confirmed by a webhook.
C9_Witness ==
    /\ request.op = "webhook" /\ request.e.appointment_id = 2
    /\ Len(appointment) = 2
    /\ appointment[2].status = "confirmed" /\ appointment[1].status = "pending"

\* C10: slot listing writes to no collection, and a listing that directly
\* follows a listing of the same (slug, service, staff, date) returns the
\* same ordered list.
C10_ListingReadOnlyAndRepeatable ==
    [][request'.op = "slots" =>
          /\ store' = store
          /\ request' = request => response' = response]_vars

\* C10 (witness): a listing returned several slots, one of them twice, while
\* an appointment is stored.
C10_Witness ==
    /\ request.op = "slots" /\ response.code = 200
    /\ appointment # <<>>
    /\ \E j, k \in 1..Len(response.times) : j < k /\ response.times[j] = response.times[k]

\* C11: whatever the payment collaborator does (not configured, Session.create
\* raises, session created), a book request that passed the availability
\* re-check answers 200 with the new appointment's id and leaves that
\* appointment stored as pending; when the collaborator is not configured or
\* raised, the response carries no checkout url and the appointment no
\* session id.
C11_BookingSurvivesPaymentOutcome ==
    [][(request'.op = "book" /\ BookCheckCode(request'.slug, request'.p) = 200) =>
          LET n == Len(appointment) + 1 IN
          /\ request'.outcome \in PaymentOutcomes
          /\ response'.code = 200
          /\ response'.appointment_id = n
          /\ Len(appointment') = n
          /\ appointment'[n].status = "pending"
          /\ request'.outcome \in {"unconfigured", "error"} =>
                /\ ~response'.checkout_url
                /\ appointment'[n].stripe_checkout_session_id = <<>>]_vars

\* C11 (witness): a booking whose Session.create raised was answered with
\* the id of the stored appointment, after one whose session was created.
C11_Witness ==
    /\ request.op = "book" /\ request.outcome = "error"
    /\ response.code = 200 /\ response.appointment_id = 2
    /\ ~response.checkout_url
    /\ Len(appointment) = 2 /\ appointment[2].status = "pending"
    /\ appointment[1].stripe_checkout_session_id # <<>>

\* C16: a book request answers 404 when no business has the slug, whatever
\* its service and staff ids are, and 400 when the slug resolves but the
\* service or the staff id does not; in both cases the store is unchanged.
C16_BookResolutionErrors ==
    [][request'.op = "book" =>
          /\ BizBySlug(request'.slug) = <<>> =>
                response'.code = 404 /\ store' = store
          /\ ( /\ BizBySlug(request'.slug) # <<>>
               /\ \/ request'.p.service_id \notin DOMAIN service
                  \/ request'.p.staff_id \notin DOMAIN staff ) =>
                response'.code = 400 /\ store' = store]_vars

\* C16 (witness): a request with an unknown slug and an unknown service was
\* answered 404 while appointments are stored.
C16_Witness ==
    /\ request.op = "book" /\ response.code = 404
    /\ BizBySlug(request.slug) = <<>>
    /\ request.p.service_id \notin DOMAIN service
    /\ appointment # <<>>

\* the (business, staff) pair has no availability record, or the record has
\* no blocks for the weekday of the (parseable) date
NoBlocksOn(business_id, staff_id, date) ==
    \/ AvIndex(business_id, staff_id) = 0
    \/ /\ DateParses(date)
       /\ DayBlocks(availability[AvIndex(business_id, staff_id)], Weekday(date)) = <<>>

\* C17: when the (business, staff) pair has no availability record, or the
\* record has no blocks for the requested date's weekday, generate_slots
\* returns the empty sequence without an error, the slot listing is empty,
\* and a book request whose business, service and staff resolve fails with
\* 409.
C17_NoBlocksMeansEmptyAnd409 ==
    [][( /\ request'.op \in {"slots", "book"}
         /\ BizBySlug(request'.slug) # <<>>
         /\ LET a == IF request'.op = "slots" THEN request'.q ELSE request'.p
            IN /\ a.service_id \in DOMAIN service
               /\ a.staff_id \in DOMAIN staff
               /\ NoBlocksOn(BizBySlug(request'.slug)[1], a.staff_id, a.date) ) =>
          LET a == IF request'.op = "slots" THEN request'.q ELSE request'.p
              g == generate_slots(BizBySlug(request'.slug)[1], a.staff_id,
                                  service[a.service_id], a.date, 15)
          IN /\ ~g.raised /\ g.slots = <<>>
             /\ request'.op = "slots" => response'.code = 200 /\ response'.times = <<>>
             /\ request'.op = "book" => response'.code = 409]_vars

\* C18: no step removes an appointment or changes the stored ones in
\* anything but their status, and a payment confirmation neither adds nor
\* removes a record.
C18_AppointmentsOnlyGrow ==
    [][ /\ Len(appointment') >= Len(appointment)
        /\ \A i \in 1..Len(appointment) :
              [appointment'[i] EXCEPT !.status = appointment[i].status] = appointment[i]
        /\ request'.op = "webhook" => Len(appointment') = Len(appointment) ]_vars

\* C18 (witness): a webhook has just confirmed the first of two stored
\* appointments, one that has a checkout session.
C18_Witness ==
    /\ request.op = "webhook" /\ request.e.appointment_id = 1
    /\ Len(appointment) = 2
    /\ appointment[1].status = "confirmed"
    /\ appointment[1].stripe_checkout_session_id # <<>>
    /\ appointment[2].status = "pending"

\* C20: the appointment a book request stores has end = start + duration_min
\* + buffer_before_min + buffer_after_min of its service, so end > start,
\* and [start, end) is the interval generate_slots tested for conflicts for
\* the requested time; the stored appointments keep that relation.
C20_EndIsStartPlusTotal ==
    [][ /\ \A i \in 1..Len(appointment') :
              LET svc == service[appointment'[i].service_id]
              IN /\ End(appointment'[i]) = Start(appointment'[i]) + svc.duration_min
                        + svc.buffer_before_min + svc.buffer_after_min
                 /\ End(appointment'[i]) > Start(appointment'[i])
        /\ (request'.op = "book" /\ response'.code = 200) =>
              LET ap == appointment'[Len(appointment')]
                  svc == service[ap.service_id]
                  x == [business_id |-> ap.business_id, staff_id |-> ap.staff_id,
                        service_id |-> ap.service_id, date |-> request'.p.date]
                  tested == {k \in 1..Len(SlotsFor(x)) :
                                HHMM(ParseIso(SlotsFor(x)[k])) = request'.p.time}
              IN /\ tested # {}
                 /\ \A k \in tested :
                       /\ ParseIso(SlotsFor(x)[k]) = Start(ap)
                       /\ ParseIso(SlotsFor(x)[k]) + DurationTotal(svc) = End(ap) ]_vars

\* C20 (witness): a service with buffers is booked for 60 minutes, next to
\* a booking whose date came in the basic format and whose end is stored in
\* the extended one.
C20_Witness ==
    \E i, j \in 1..Len(appointment) :
        /\ appointment[i].service_id = "sv2"
        /\ End(appointment[i]) - Start(appointment[i]) = 60
        /\ appointment[j].start_iso.date.fmt = "basic"
        /\ appointment[j].end_iso.date.fmt = "ext"
        /\ End(appointment[j]) - Start(appointment[j]) = 30

\* C12: no two business documents have the same slug, also when two
\* create-business requests for one slug interleave between the lookup and
\* the insert; and a create-business request that finds its slug stored
\* answers 400 and inserts nothing.
C12_SlugUnique ==
    [][ /\ \A a, b \in DOMAIN business' :
              a # b => business'[a].slug # business'[b].slug
        /\ ( /\ request'.op = "create_business_check"
             /\ \E b \in DOMAIN business : business[b].slug = request'.payload.slug ) =>
              response'.code = 400 /\ business' = business ]_vars

\* the record is of the (business, staff) pair of the payload
OfPair(r, payload) ==
    r.business_id = payload.business_id /\ r.staff_id = payload.staff_id

\* C13: with set-availability requests handled one at a time, the store
\* never holds two availability records of one (business_id, staff_id); after
\* an accepted request the pair's one record has exactly the request's
\* weekly map and slot increment, and the records of the other pairs are as
\* before; a rejected request changes nothing.
C13_AvailabilityFullReplace ==
    [][ /\ \A i, j \in 1..Len(availability') :
              OfPair(availability'[i], availability'[j]) => i = j
        /\ (request'.op = "availability" /\ response'.code = 200) =>
              /\ \E i \in 1..Len(availability') :
                    /\ OfPair(availability'[i], request'.payload)
                    /\ availability'[i].weekly = request'.payload.weekly
                    /\ availability'[i].slot_increment_min =
                           request'.payload.slot_increment_min
              /\ SelectSeq(availability', LAMBDA r : ~OfPair(r, request'.payload))
                    = SelectSeq(availability, LAMBDA r : ~OfPair(r, request'.payload))
        /\ (request'.op = "availability" /\ response'.code # 200) =>
              availability' = availability ]_vars

\* C13 (witness): the record of the pair stored first was just replaced by
\* a request with fewer weekdays, while the other pair's record is stored.
C13_Witness ==
    /\ request.op = "availability" /\ response.code = 200
    /\ Len(availability) = 2
    /\ OfPair(availability[1], request.payload)
    /\ availability[1].weekly = WeeklyOf(1)
    /\ availability[1].slot_increment_min = 30
    /\ availability[2].weekly = WeeklyOf(2)

\* the reminders that are queued, and those a step takes out of the queue
Queued == {k \in 1..Len(reminder) : reminder[k].status = "queued"}
TakenFrom(before, after) ==
    {k \in 1..Len(before) : before[k].status = "queued" /\ after[k].status # "queued"}

\* C14: a dispatch invocation of a process with no email and no SMS provider
\* configured moves every queued reminder it drains to sent, and draws at
\* least one when any is queued; and with the dispatcher invoked again and
\* again, every queued reminder eventually is no longer queued.  The last
\* part is stated for all reminders at once: no step puts a reminder back
\* to queued, and whenever reminders are queued, a state follows in which
\* none of the stored reminders is.
C14_QueuedBecomesSent ==
    /\ [][ /\ (request'.op = "send_reminders"
                  /\ ~request'.c.resend /\ ~request'.c.twilio) =>
                /\ \A k \in Queued : reminder'[k].status \in {"queued", "sent"}
                /\ Queued # {} => \E k \in Queued : reminder'[k].status = "sent"
           /\ \A k \in 1..Len(reminder) :
                 /\ k <= Len(reminder')
                 /\ reminder[k].status # "queued" => reminder'[k].status # "queued"
        ]_vars
    /\ (Queued # {}) ~> (Queued = {})

\* C14 (witness): an unconfigured dispatcher has just marked 50 reminders
\* sent, and one that came after them is still queued.
C14_Witness ==
    /\ request.op = "send_reminders" /\ ~request.c.resend /\ ~request.c.twilio
    /\ response.sent = 50 /\ response.failed = 0
    /\ Queued # {}
    /\ \A k \in 1..50 : reminder[k].status = "sent"

\* C15: a dispatch invocation takes at most 50 queued reminders and leaves
\* each of them sent or failed, failed only when its appointment is missing
\* or its provider was called and did not succeed; it answers 200 with
\* sent + failed equal to the number taken; and it changes no reminder that
\* is already sent or failed.
C15_DispatchBatch ==
    [][request'.op = "send_reminders" =>
          LET taken == TakenFrom(reminder, reminder')
              c == request'.c
          IN /\ Len(reminder') = Len(reminder)
             /\ Cardinality(taken) <= 50
             /\ Cardinality(taken) < 50 => taken = Queued
             /\ \A k \in taken :
                   /\ reminder'[k].status \in {"sent", "failed"}
                   /\ reminder'[k].status = "failed" =>
                         \/ reminder[k].appointment_id \notin 1..Len(appointment)
                         \/ reminder[k].kind = "email" /\ c.resend /\ c.email = "error"
                         \/ reminder[k].kind = "sms" /\ c.twilio /\ c.sms = "error"
                   /\ ( \/ reminder[k].kind = "email" /\ c.resend /\ c.email = "error"
                        \/ reminder[k].kind = "sms" /\ c.twilio /\ c.sms = "error" ) =>
                         reminder'[k].status = "failed"
             /\ response'.code = 200
             /\ response'.sent = Cardinality({k \in taken : reminder'[k].status = "sent"})
             /\ response'.failed =
                    Cardinality({k \in taken : reminder'[k].status = "failed"})
             /\ response'.sent + response'.failed = Cardinality(taken)
             /\ \A k \in 1..Len(reminder) :
                   reminder[k].status \in {"sent", "failed"} => reminder'[k] = reminder[k]
    ]_vars

\* C15 (witness): a dispatch has just taken 50 of 51 queued reminders, some
\* of which failed and some of which were sent, and earlier failures are
\* impossible here because all 50 were queued; one reminder is left queued.
C15_Witness ==
    /\ request.op = "send_reminders"
    /\ response.sent > 0 /\ response.failed > 0
    /\ response.sent + response.failed = 50
    /\ Len(reminder) = 51 /\ reminder[51].status = "queued"

\* the appointment's start is within 5 minutes of now + hours
StartsNear(i, now, hours) ==
    /\ Start(appointment[i]) >= now + hours * 60 - 5
    /\ Start(appointment[i]) <= now + hours * 60 + 5

\* the channel is enabled for the appointment's business
ChannelEnabled(i, kind) ==
    /\ appointment[i].business_id \in DOMAIN business
    /\ business[appointment[i].business_id].reminders_enabled
    /\ IF kind = "email"
       THEN business[appointment[i].business_id].reminders_email_enabled
       ELSE business[appointment[i].business_id].reminders_sms_enabled

\* C19: a scheduler invocation leaves the stored reminders as they are and
\* appends, for every confirmed appointment whose start is within 5 minutes
\* of now + 24h or now + 2h and every channel enabled for its business,
\* exactly one queued reminder, whatever reminders exist already; for other
\* appointments and channels it appends none.
C19_SchedulerEnqueues ==
    [][request'.op = "run_reminders" =>
          LET n == Len(reminder)
              added == {k \in 1..Len(reminder') : k > n}
          IN /\ Len(reminder') >= n
             /\ SubSeq(reminder', 1, n) = reminder
             /\ \A k \in added : reminder'[k].status = "queued"
             /\ \A i \in 1..Len(appointment), kind \in {"email", "sms"} :
                   Cardinality({k \in added : /\ reminder'[k].appointment_id = i
                                              /\ reminder'[k].kind = kind})
                     = IF /\ appointment[i].status = "confirmed"
                          /\ \/ StartsNear(i, request'.now, 24)
                             \/ StartsNear(i, request'.now, 2)
                          /\ ChannelEnabled(i, kind)
                       THEN 1 ELSE 0]_vars

----------------------------------------------------------------------------
\* C21: every call of generate_slots ends: a slot-listing or book request
\* that has entered the block loop eventually leaves it, by a return or by
\* an error, whatever slot_increment_min the stored availability record
\* carries (zero and negative increments included).
C21_GenerateSlotsTerminates == (gen # <<>>) ~> (gen = <<>>)

----------------------------------------------------------------------------
\* the staff member and the service of a stored appointment belong to the
\* appointment's business
RefsBelong(i) ==
    /\ staff[appointment[i].staff_id].business_id = appointment[i].business_id
    /\ service[appointment[i].service_id].business_id = appointment[i].business_id

\* a stored availability record pairs a staff member with that staff
\* member's business
PairBelongs(k) ==
    staff[availability[k].staff_id].business_id = availability[k].business_id

\* two pending or confirmed appointments of one staff member under two
\* businesses, with overlapping intervals
CrossBusinessOverlap(i, j) ==
    /\ i # j /\ Active(i) /\ Active(j)
    /\ appointment[i].staff_id = appointment[j].staff_id
    /\ appointment[i].business_id # appointment[j].business_id
    /\ Overlapping(i, j)

\* C22: every stored appointment references a staff member and a service of
\* its own business, every stored availability record pairs a staff member
\* with that staff member's business, and no staff member holds overlapping
\* pending or confirmed appointments under two different businesses.
C22_ReferencesWithinBusiness ==
    /\ \A i \in 1..Len(appointment) : RefsBelong(i)
    /\ \A k \in 1..Len(availability) : PairBelongs(k)
    /\ \A i, j \in 1..Len(appointment) : ~CrossBusinessOverlap(i, j)

----------------------------------------------------------------------------
\* C23: every appointment stored by book has
\* 0 <= amount_cents_due_now <= amount_cents_total = price_cents, with
\* amount_cents_due_now > 0 when the price is positive, and the full price
\* due when the service carries an override of 0; for prices >= 0 and
\* deposit percentages in 0..100.
C23_DepositBounds ==
    \A i \in 1..Len(appointment) :
        LET ap == appointment[i]
            svc == service[ap.service_id]
        IN /\ 0 <= ap.amount_cents_due_now
           /\ ap.amount_cents_due_now <= ap.amount_cents_total
           /\ ap.amount_cents_total = svc.price_cents
           /\ svc.price_cents > 0 => ap.amount_cents_due_now > 0
           /\ svc.deposit_percent_override = <<0>> =>
                 ap.amount_cents_due_now = svc.price_cents

\* C23 (witness): a booking of a service priced 10000 with an override of 0,
\* under a business whose default is 20 percent, was stored with the full
\* price due.
C23_Witness ==
    /\ request.op = "book" /\ response.code = 200
    /\ business["b1"].deposit_percent_default = 20
    /\ LET ap == appointment[response.appointment_id]
       IN /\ service[ap.service_id].deposit_percent_override = <<0>>
          /\ service[ap.service_id].price_cents = 10000
          /\ ap.amount_cents_due_now = 10000

====
